---- MODULE Spec2Model ----
(***************************************************************************)
(* Model of attestation/src/report.rs: the SGX quote codec                 *)
(* (SgxEnclaveReport::parse_from, SgxQuote::parse_from), the quote status  *)
(* mapping (SgxQuoteStatus::from) and the verifier                         *)
(* AttestationReport::from_cert.                                           *)
(*                                                                         *)
(* Bytes are naturals in 0..255.  A u16 is a natural below 2^16.  A u32 is *)
(* kept as its two 16-bit halves [hi, lo] (value hi * 2^16 + lo), so that  *)
(* every u32 is represented exactly.  Text is a sequence of one-character  *)
(* strings.                                                                *)
(***************************************************************************)
EXTENDS Integers, Sequences, FiniteSets, TLC

(***************************************************************************)
(* Bounds of the model.                                                    *)
(***************************************************************************)
\* input lengths tried around each structure size: size - d .. size + d
MaxLenDelta == 1
\* short inputs tried: lengths 0 .. MaxShortLen
MaxShortLen == 5
\* low bytes of the version and discriminator words tried: 0 .. MaxHeaderLow
MaxHeaderLow == 4
\* high bytes of the version and discriminator words tried: 0 .. MaxHeaderHigh
MaxHeaderHigh == 1
\* clock values tried: the whole seconds FixtureNow - ClockSpan .. FixtureNow + ClockSpan
ClockSpan == 1

(***************************************************************************)
(* Byte and integer helpers.                                               *)
(***************************************************************************)
\* u16::from_le_bytes
U16FromLeBytes(b) == b[1] + 256 * b[2]

\* the u32 read big-endian
U32FromBeBytes(b) == [lo |-> b[4] + 256 * b[3], hi |-> b[2] + 256 * b[1]]

\* u32::from_le_bytes, as the pair of its 16-bit halves
U32FromLeBytes(b) == [lo |-> b[1] + 256 * b[2], hi |-> b[3] + 256 * b[4]]

\* u16::to_le_bytes and u32::to_le_bytes, used to re-encode parsed fields
U16ToLeBytes(v) == <<v % 256, v \div 256>>
U32ToLeBytes(v) == U16ToLeBytes(v.lo) \o U16ToLeBytes(v.hi)

(***************************************************************************)
(* The closure `take` of both parsers: the slice bytes[pos .. pos + n) and *)
(* the advanced cursor, or a failure when n = 0 or the input is too short. *)
(* pos counts consumed bytes (0-based cursor); sequences are 1-based.      *)
(***************************************************************************)
QuoteParsingError == [ok |-> FALSE, err |-> "Quote parsing error."]

take(bytes, pos, n) ==
    IF n > 0 /\ Len(bytes) >= pos + n
    THEN [ok |-> TRUE, ret |-> SubSeq(bytes, pos + 1, pos + n), pos |-> pos + n]
    ELSE QuoteParsingError

RECURSIVE takeAll(_, _, _, _)
\* consecutive calls take(sizes[1])?, take(sizes[2])?, ...: the slices in
\* order and the final cursor, or the first failure
takeAll(bytes, pos, sizes, acc) ==
    IF sizes = <<>>
    THEN [ok |-> TRUE, rets |-> acc, pos |-> pos]
    ELSE LET t == take(bytes, pos, Head(sizes))
         IN  IF ~t.ok THEN QuoteParsingError
             ELSE takeAll(bytes, t.pos, Tail(sizes), Append(acc, t.ret))

\* the final check accepting unconsumed trailing bytes
ensure_consumed_at_most(pos, bytes) == pos <= Len(bytes)

\* ensure!(pos == bytes.len(), ..) at the end of both parsers
ensure_consumed(pos, bytes) == pos = Len(bytes)

(***************************************************************************)
(* SgxEnclaveReport::parse_from                                            *)
(***************************************************************************)
\* the sizes with the first reserved region 16 bytes short and the second
\* 16 bytes long: attributes and mr_enclave are read from reserved bytes
SgxEnclaveReportTakes_short_reserved ==
    <<16, 4, 12, 16, 32, 48, 32, 96, 2, 2, 60, 64>>

\* the sizes taken, in source order: cpu_svn, misc_select, reserved,
\* attributes, mr_enclave, reserved, mr_signer, reserved, isv_prod_id,
\* isv_svn, reserved, report_data
SgxEnclaveReportTakes == <<16, 4, 28, 16, 32, 32, 32, 96, 2, 2, 60, 64>>

SgxEnclaveReport_parse_from(bytes) ==
    LET t == takeAll(bytes, 0, SgxEnclaveReportTakes, <<>>)
    IN  IF ~t.ok THEN QuoteParsingError
        ELSE IF ~ensure_consumed(t.pos, bytes) THEN QuoteParsingError
        ELSE [ok |-> TRUE,
              pos |-> t.pos,
              value |-> [cpu_svn     |-> t.rets[1],
                         misc_select |-> U32FromLeBytes(t.rets[2]),
                         attributes  |-> t.rets[4],
                         mr_enclave  |-> t.rets[5],
                         mr_signer   |-> t.rets[7],
                         isv_prod_id |-> U16FromLeBytes(t.rets[9]),
                         isv_svn     |-> U16FromLeBytes(t.rets[10]),
                         report_data |-> [i \in 1..64 |-> t.rets[12][i]]]]

(***************************************************************************)
(* SgxQuote::parse_from                                                    *)
(***************************************************************************)
NoVersion == [tag |-> "none", ty |-> "none"]

\* the inner match on the discriminator word of an EPID quote (V1, V2)
SgxEpidQuoteSigType(d) ==
    IF d = 0 THEN "Unlinkable" ELSE IF d = 1 THEN "Linkable" ELSE "none"

\* the ECDSA match with the discriminators of the EPID match
SgxEcdsaQuoteAkType_from_zero(d) ==
    IF d = 0 THEN "P256_256" ELSE IF d = 1 THEN "P384_384" ELSE "none"

\* the inner match on the discriminator word of an ECDSA quote (V3)
SgxEcdsaQuoteAkType(d) ==
    IF d = 2 THEN "P256_256" ELSE IF d = 3 THEN "P384_384" ELSE "none"

\* the outer match on the version word; d is read only in the arms 1, 2, 3
SgxQuoteVersion(v, d) ==
    IF v = 1 THEN [tag |-> "V1", ty |-> SgxEpidQuoteSigType(d)]
    ELSE IF v = 2 THEN [tag |-> "V2", ty |-> SgxEpidQuoteSigType(d)]
    ELSE IF v = 3 THEN [tag |-> "V3", ty |-> SgxEcdsaQuoteAkType(d)]
    ELSE NoVersion

\* Uuid::from_slice: a slice of 16 bytes, kept in stored order
Uuid_from_slice(b) ==
    IF Len(b) = 16 THEN [ok |-> TRUE, value |-> b] ELSE QuoteParsingError

\* the sizes taken after the version: gid, isv_svn_qe, isv_svn_pce,
\* qe_vendor_id, user_data, isv_enclave_report
SgxQuoteTakes == <<4, 2, 2, 16, 20, 384>>

SgxQuote_parse_from(bytes) ==
    LET tv == take(bytes, 0, 2)
    IN  IF ~tv.ok THEN QuoteParsingError
        ELSE
        LET v == U16FromLeBytes(tv.ret)
        IN  IF v \notin {1, 2, 3} THEN QuoteParsingError
            ELSE
            LET td == take(bytes, tv.pos, 2)
            IN  IF ~td.ok THEN QuoteParsingError
                ELSE
                LET version == SgxQuoteVersion(v, U16FromLeBytes(td.ret))
                IN  IF version.ty = "none" THEN QuoteParsingError
                    ELSE
                    LET t == takeAll(bytes, td.pos, SgxQuoteTakes, <<>>)
                    IN  IF ~t.ok THEN QuoteParsingError
                        ELSE
                        LET uuid   == Uuid_from_slice(t.rets[4])
                            report == SgxEnclaveReport_parse_from(t.rets[6])
                        IN  IF ~uuid.ok THEN QuoteParsingError
                            ELSE IF ~report.ok THEN QuoteParsingError
                            ELSE IF ~ensure_consumed(t.pos, bytes) THEN QuoteParsingError
                            ELSE [ok |-> TRUE,
                                  pos |-> t.pos,
                                  value |-> [version      |-> version,
                                             gid          |-> U32FromLeBytes(t.rets[1]),
                                             isv_svn_qe   |-> U16FromLeBytes(t.rets[2]),
                                             isv_svn_pce  |-> U16FromLeBytes(t.rets[3]),
                                             qe_vendor_id |-> uuid.value,
                                             user_data    |-> t.rets[5],
                                             isv_enclave_report |-> report.value]]

\* the mapping without the alternative "GROUP_OUT_OF_DATE"
SgxQuoteStatus_from_without_group(status) ==
    CASE status = "OK" -> "OK"
      [] status = "KEY_REVOKED" -> "AttestationKeyRevoked"
      [] status = "TCB_OUT_OF_DATE" -> "TcbOutOfDate"
      [] status = "CONFIGURATION_NEEDED" -> "ConfigurationNeeded"
      [] status = "OUT_OF_DATE_CONFIGURATION_NEEDED" -> "TcbOutOfDateAndConfigurationNeeded"
      [] status = "SIGNATURE_INVALID" -> "SignatureInvalid"
      [] status = "SW_HARDENING_NEEDED" -> "SwHardeningNeeded"
      [] OTHER -> "UnknownBadStatus"

(***************************************************************************)
(* impl From<&str> for SgxQuoteStatus                                      *)
(***************************************************************************)
SgxQuoteStatus_from(status) ==
    CASE status = "OK" -> "OK"
      [] status = "KEY_REVOKED" -> "AttestationKeyRevoked"
      [] status \in {"GROUP_OUT_OF_DATE", "TCB_OUT_OF_DATE"} -> "TcbOutOfDate"
      [] status = "CONFIGURATION_NEEDED" -> "ConfigurationNeeded"
      [] status = "OUT_OF_DATE_CONFIGURATION_NEEDED" -> "TcbOutOfDateAndConfigurationNeeded"
      [] status = "SIGNATURE_INVALID" -> "SignatureInvalid"
      [] status = "SW_HARDENING_NEEDED" -> "SwHardeningNeeded"
      [] OTHER -> "UnknownBadStatus"

(***************************************************************************)
(* base64::decode with the standard alphabet, as called on the quote body. *)
(***************************************************************************)
Base64Alphabet ==
    <<"A","B","C","D","E","F","G","H","I","J","K","L","M","N","O","P",
      "Q","R","S","T","U","V","W","X","Y","Z","a","b","c","d","e","f",
      "g","h","i","j","k","l","m","n","o","p","q","r","s","t","u","v",
      "w","x","y","z","0","1","2","3","4","5","6","7","8","9","+","/">>

Base64Chars == {Base64Alphabet[i] : i \in 1..64}

\* the 6-bit value of each character of the alphabet
Base64Values ==
    [c \in Base64Chars |-> (CHOOSE i \in 1..64 : Base64Alphabet[i] = c) - 1]

Base64Value(c) == Base64Values[c]

\* the number of trailing "=" characters, at most two
Base64Padding(s) ==
    IF Len(s) >= 1 /\ s[Len(s)] = "="
    THEN IF Len(s) >= 2 /\ s[Len(s) - 1] = "=" THEN 2 ELSE 1
    ELSE 0

Pow2(k) == IF k = 0 THEN 1 ELSE IF k = 2 THEN 4 ELSE 16

base64_decode(s) ==
    LET pad  == Base64Padding(s)
        n    == Len(s) - pad
        data == SubSeq(s, 1, n)
        vals == [i \in 1..n |-> Base64Value(data[i])]
        m    == (n * 6) \div 8
        \* byte k (0-based) starts o bits into character 1 + (8k div 6)
        byte(k) == LET i == (8 * k) \div 6
                       o == (8 * k) % 6
                   IN  ((vals[i + 1] * 64 + vals[i + 2]) \div Pow2(4 - o)) % 256
    IN  IF \E i \in 1..n : data[i] \notin Base64Chars
        THEN [ok |-> FALSE, err |-> "base64::DecodeError"]
        ELSE IF n % 4 = 1 \/ (pad > 0 /\ (n + pad) % 4 # 0)
        THEN [ok |-> FALSE, err |-> "base64::DecodeError"]
        ELSE IF (n % 4 = 2 /\ vals[n] % 16 # 0) \/ (n % 4 = 3 /\ vals[n] % 4 # 0)
        THEN [ok |-> FALSE, err |-> "base64::DecodeError"]
        ELSE [ok |-> TRUE, value |-> [k \in 1..m |-> byte(k - 1)]]

\* base64 encoding with padding: how a quote body reaches the report
base64_encode(b) ==
    LET n == Len(b)
        at(i) == IF i <= n THEN b[i] ELSE 0
        group(g) == LET x == at(3 * g + 1)
                        y == at(3 * g + 2)
                        z == at(3 * g + 3)
                    IN  <<x \div 4, (x % 4) * 16 + y \div 16,
                          (y % 16) * 4 + z \div 64, z % 64>>
        groups == (n + 2) \div 3
        char(j) == LET g == (j - 1) \div 4
                       k == (j - 1) % 4
                   IN  IF 3 * g + k > n THEN "="
                       ELSE Base64Alphabet[group(g)[k + 1] + 1]
    IN  [j \in 1..(4 * groups) |-> char(j)]

(***************************************************************************)
(* The quote of the unit tests: attesation_report()["isvEnclaveQuoteBody"] *)
(***************************************************************************)
FixtureQuoteBody ==
    <<"A","g","A","B","A","C","8","L","A","A","A","K","A","A","k","A","A","A","A","A","A","K","1","z","R","Q","O","I","p","n","d","i","P","4","I","h","l","n","W","2","A","k","w","A","A","A","A","A">> \o
    <<"A","A","A","A","A","A","A","A","A","A","A","A","A","A","A","A","B","Q","4","C","B","f","+","A","A","A","A","A","A","A","A","A","A","A","A","A","A","A","A","A","A","A","A","A","A","A","A","A">> \o
    <<"A","A","A","A","A","A","A","A","A","A","A","A","A","A","A","A","A","A","A","A","A","A","A","A","A","A","A","A","A","A","A","A","B","w","A","A","A","A","A","A","A","A","A","H","A","A","A","A">> \o
    <<"A","A","A","A","A","D","M","K","q","R","C","j","d","2","e","A","4","g","A","m","r","j","2","s","B","6","8","O","W","p","M","f","h","P","H","4","M","H","2","7","h","Z","A","v","W","G","l","T">> \o
    <<"A","A","A","A","A","A","A","A","A","A","A","A","A","A","A","A","A","A","A","A","A","A","A","A","A","A","A","A","A","A","A","A","A","A","A","A","A","A","A","A","A","A","C","D","1","x","n","n">> \o
    <<"f","e","r","K","F","H","D","2","u","v","Y","q","T","X","d","D","A","8","i","Z","2","2","k","C","D","5","x","w","7","h","3","8","C","M","f","O","n","g","A","A","A","A","A","A","A","A","A","A">> \o
    <<"A","A","A","A","A","A","A","A","A","A","A","A","A","A","A","A","A","A","A","A","A","A","A","A","A","A","A","A","A","A","A","A","A","A","A","A","A","A","A","A","A","A","A","A","A","A","A","A">> \o
    <<"A","A","A","A","A","A","A","A","A","A","A","A","A","A","A","A","A","A","A","A","A","A","A","A","A","A","A","A","A","A","A","A","A","A","A","A","A","A","A","A","A","A","A","A","A","A","A","A">> \o
    <<"A","A","A","A","A","A","A","A","A","A","A","A","A","A","A","A","A","A","A","A","A","A","A","A","A","A","A","A","A","A","A","A","A","A","A","A","A","A","A","A","A","A","A","A","A","A","A","A">> \o
    <<"A","A","A","A","A","A","A","A","A","A","A","A","A","A","A","A","A","A","A","A","A","A","A","A","A","A","A","A","A","A","A","A","A","A","A","A","A","A","A","A","A","A","A","A","A","A","A","A">> \o
    <<"A","A","A","A","A","A","A","A","A","A","D","Y","I","Y","9","k","0","M","V","m","C","d","I","D","U","u","F","L","f","/","2","b","G","I","H","A","f","P","j","O","9","n","v","C","7","f","g","z">> \o
    <<"r","Q","e","d","e","A","3","W","W","4","d","F","e","I","6","o","e","+","R","C","L","d","V","3","X","Y","D","1","n","6","l","E","Z","j","I","T","O","z","P","P","L","W","D","x","u","l","G","z">>

FixtureQuote == base64_decode(FixtureQuoteBody).value

(***************************************************************************)
(* Time.  An instant is [secs, nanos]: whole seconds since the Unix epoch  *)
(* and 0 <= nanos < 10^9, as SystemTime and chrono's NaiveDateTime hold    *)
(* it.  A chrono Duration is [secs, nanos] with 0 <= nanos < 10^9 as well. *)
(***************************************************************************)
NanosPerSec == 1000 * 1000 * 1000

Digits == <<"0","1","2","3","4","5","6","7","8","9">>

IsDigit(c) == \E d \in 1..10 : Digits[d] = c

DigitValue(c) == (CHOOSE d \in 1..10 : Digits[d] = c) - 1

RECURSIVE Pow10(_)
Pow10(k) == IF k = 0 THEN 1 ELSE 10 * Pow10(k - 1)

RECURSIVE CountDigits(_, _, _)
\* the number of digits at s[pos], s[pos + 1], ..., at most max
CountDigits(s, pos, max) ==
    IF max = 0 \/ pos > Len(s) \/ ~IsDigit(s[pos]) THEN 0
    ELSE 1 + CountDigits(s, pos + 1, max - 1)

RECURSIVE DigitsValue(_, _, _)
\* the decimal value of the k digits that end at s[last]
DigitsValue(s, last, k) ==
    IF k = 0 THEN 0
    ELSE 10 * DigitsValue(s, last - 1, k - 1) + DigitValue(s[last])

\* a numeric item of the format (%Y: max 4; %m %d %H %M %S: max 2): one to
\* max digits starting at pos
ScanNumber(s, pos, max) ==
    LET k == CountDigits(s, pos, max)
    IN  [ok |-> k >= 1, value |-> DigitsValue(s, pos + k - 1, k), pos |-> pos + k]

\* a literal character of the format ("-", "T", ":")
ScanChar(s, pos, c) ==
    [ok |-> pos <= Len(s) /\ s[pos] = c, pos |-> pos + 1]

\* %.f: nothing, or "." and one to nine digits of a fraction of a second,
\* left-aligned, as nanoseconds
ScanFraction(s, pos) ==
    IF pos <= Len(s) /\ s[pos] = "."
    THEN LET k == CountDigits(s, pos + 1, 9)
         IN  [ok |-> k >= 1,
              value |-> DigitsValue(s, pos + k, k) * Pow10(9 - k),
              pos |-> pos + 1 + k]
    ELSE [ok |-> TRUE, value |-> 0, pos |-> pos]

\* %z: a sign, two digits of hours and two of minutes, as seconds east
ScanOffset(s, pos) ==
    IF pos + 4 <= Len(s) /\ s[pos] \in {"+", "-"} /\ CountDigits(s, pos + 1, 4) = 4
    THEN LET h == DigitsValue(s, pos + 2, 2)
             m == DigitsValue(s, pos + 4, 2)
             sign == IF s[pos] = "+" THEN 1 ELSE -1
         IN  [ok |-> m < 60, value |-> sign * (h * 3600 + m * 60), pos |-> pos + 5]
    ELSE [ok |-> FALSE, value |-> 0, pos |-> pos]

IsLeapYear(y) == (y % 4 = 0 /\ y % 100 # 0) \/ y % 400 = 0

DaysInMonth(y, m) ==
    IF m = 2 THEN (IF IsLeapYear(y) THEN 29 ELSE 28)
    ELSE IF m \in {4, 6, 9, 11} THEN 30 ELSE 31

\* days from 1970-01-01 to the civil date y-m-d (proleptic Gregorian)
DaysFromCivil(y, m, d) ==
    LET yy  == IF m <= 2 THEN y - 1 ELSE y
        era == yy \div 400
        yoe == yy - era * 400
        mp  == IF m > 2 THEN m - 3 ELSE m + 9
        doy == (153 * mp + 2) \div 5 + d - 1
        doe == yoe * 365 + yoe \div 4 - yoe \div 100 + doy
    IN  era * 146097 + doe - 719468

ChronoParseError == [ok |-> FALSE, err |-> "chrono::ParseError"]

\* DateTime::parse_from_str(s, "%Y-%m-%dT%H:%M:%S%.f%z") followed by
\* naive_utc(): the instant in UTC, or a parse error
DateTime_parse_from_str(s) ==
    LET year   == ScanNumber(s, 1, 4)
        dash1  == ScanChar(s, year.pos, "-")
        month  == ScanNumber(s, dash1.pos, 2)
        dash2  == ScanChar(s, month.pos, "-")
        day    == ScanNumber(s, dash2.pos, 2)
        tee    == ScanChar(s, day.pos, "T")
        hour   == ScanNumber(s, tee.pos, 2)
        colon1 == ScanChar(s, hour.pos, ":")
        minute == ScanNumber(s, colon1.pos, 2)
        colon2 == ScanChar(s, minute.pos, ":")
        second == ScanNumber(s, colon2.pos, 2)
        frac   == ScanFraction(s, second.pos)
        offset == ScanOffset(s, frac.pos)
    IN  IF ~(/\ year.ok /\ dash1.ok /\ month.ok /\ dash2.ok /\ day.ok /\ tee.ok
             /\ hour.ok /\ colon1.ok /\ minute.ok /\ colon2.ok /\ second.ok
             /\ frac.ok /\ offset.ok)
        THEN ChronoParseError
        ELSE IF offset.pos # Len(s) + 1
        THEN ChronoParseError
        ELSE IF ~(/\ month.value \in 1..12
                  /\ day.value \in 1..DaysInMonth(year.value, month.value)
                  /\ hour.value < 24 /\ minute.value < 60 /\ second.value < 60)
        THEN ChronoParseError
        ELSE [ok |-> TRUE,
              value |-> [secs |-> DaysFromCivil(year.value, month.value, day.value) * 86400
                                  + hour.value * 3600 + minute.value * 60
                                  + second.value - offset.value,
                         nanos |-> frac.value]]

\* the difference of the whole seconds alone, fractions dropped
NaiveDateTime_sub_whole_seconds(a, b) ==
    [secs |-> a.secs - b.secs, nanos |-> 0]

\* NaiveDateTime - NaiveDateTime: the signed Duration a - b
NaiveDateTime_sub(a, b) ==
    IF a.nanos >= b.nanos
    THEN [secs |-> a.secs - b.secs, nanos |-> a.nanos - b.nanos]
    ELSE [secs |-> a.secs - b.secs - 1, nanos |-> a.nanos - b.nanos + NanosPerSec]

\* whole seconds rounded down instead of towards zero
Duration_num_seconds_floor(d) == d.secs

\* Duration::num_seconds: whole seconds, rounded towards zero
Duration_num_seconds(d) ==
    IF d.secs < 0 /\ d.nanos > 0 THEN d.secs + 1 ELSE d.secs

\* u64::try_from(i64)
u64_try_from(v) ==
    IF v >= 0 THEN [ok |-> TRUE, value |-> v]
    ELSE [ok |-> FALSE, err |-> "TryFromIntError"]

(***************************************************************************)
(* State.                                                                  *)
(*                                                                         *)
(* The codec is exercised by direct calls of the two parse_from functions: *)
(* op names the last call, bytes its input and parsed its result;          *)
(* prev_bytes and prev_parsed keep the call before it.                     *)
(*                                                                         *)
(* One call of AttestationReport::from_cert is followed statement by       *)
(* statement: pc is the statement about to run, the other variables are    *)
(* the locals of the call and the record of what the call has done: reads  *)
(* (the values SystemTime::now() returned, in order), steps (the           *)
(* statements run, in order), chain_verified, signature_verified and       *)
(* failed_at.                                                              *)
(***************************************************************************)
VARIABLES
    op, bytes, parsed, prev_bytes, prev_parsed,
    pc, err, failed_at, steps, reads,
    pub_k, report, time, chain_verified, signature_verified,
    timestamp, quote_freshness, status_string, sgx_quote_status,
    sgx_quote_body

codec_vars == <<op, bytes, parsed, prev_bytes, prev_parsed>>

call_vars == <<pc, err, failed_at, steps, reads, pub_k, report, time,
               chain_verified, signature_verified, timestamp,
               quote_freshness, status_string, sgx_quote_status,
               sgx_quote_body>>

vars == <<codec_vars, call_vars>>

NotParsed == [ok |-> FALSE, err |-> "not parsed"]

NotAString == [is_str |-> FALSE, str |-> <<>>]

Str(s) == [is_str |-> TRUE, str |-> s]

(***************************************************************************)
(* Inputs of the model.                                                    *)
(***************************************************************************)
\* 2020-02-11T22:26:09 UTC
FixtureNow ==
    [secs |-> DaysFromCivil(2020, 2, 11) * 86400 + 22 * 3600 + 26 * 60 + 9,
     nanos |-> 0]

\* what SystemTime::now() may return: a time before the Unix epoch, the whole
\* seconds around FixtureNow, and a time 0.6 s after FixtureNow
ClockValues ==
    {[secs |-> -1, nanos |-> 0],
     [secs |-> FixtureNow.secs, nanos |-> 600 * 1000 * 1000]} \cup
    {[secs |-> FixtureNow.secs + d, nanos |-> 0] : d \in (0 - ClockSpan)..ClockSpan}

\* "2020-02-11T22:25:59.682915"
FixtureTimestamp ==
    <<"2","0","2","0","-","0","2","-","1","1","T","2","2",
      ":","2","5",":","5","9",".","6","8","2","9","1","5">>

\* "2020-02-11T22:26:09"
TimestampNoFraction ==
    <<"2","0","2","0","-","0","2","-","1","1",
      "T","2","2",":","2","6",":","0","9">>

\* "2020-02-11T22:26:09.500000"
TimestampHalfSecond ==
    <<"2","0","2","0","-","0","2","-","1","1","T","2","2",
      ":","2","6",":","0","9",".","5","0","0","0","0","0">>

\* "2020-02-11T22:25:59Z"
TimestampWithZone ==
    <<"2","0","2","0","-","0","2","-","1","1",
      "T","2","2",":","2","5",":","5","9","Z">>

\* "2020-02-11T22:25:59+0100"
TimestampWithOffset ==
    <<"2","0","2","0","-","0","2","-","1","1","T","2",
      "2",":","2","5",":","5","9","+","0","1","0","0">>

\* "2020-13-11T22:25:59"
TimestampBadMonth ==
    <<"2","0","2","0","-","1","3","-","1","1",
      "T","2","2",":","2","5",":","5","9">>

\* "banana"
TimestampGarbage ==
    <<"b","a","n","a","n","a">>

TimestampInputs ==
    {NotAString} \cup
    {Str(s) : s \in {FixtureTimestamp, TimestampNoFraction, TimestampHalfSecond,
                     TimestampWithZone, TimestampWithOffset, TimestampBadMonth,
                     TimestampGarbage}}

StatusInputs ==
    {[is_str |-> FALSE, str |-> ""]} \cup
    {[is_str |-> TRUE, str |-> s] :
        s \in {"OK", "KEY_REVOKED", "GROUP_OUT_OF_DATE", "TCB_OUT_OF_DATE",
               "CONFIGURATION_NEEDED", "OUT_OF_DATE_CONFIGURATION_NEEDED",
               "SIGNATURE_INVALID", "SW_HARDENING_NEEDED",
               "banana", "ok", ""}}

\* the signing certificate of the endorsed report: whether it parses as an
\* end-entity certificate, whether it chains to the caller's root, and its
\* validity period in seconds since the epoch
SigningCertInputs ==
    {[parses |-> p, chains_to_root |-> c,
      not_before |-> FixtureNow.secs - 1000, not_after |-> FixtureNow.secs + a] :
        p \in BOOLEAN, c \in BOOLEAN, a \in {0, 1000}}

\* the endorsed report decoded from the extension payload
ReportInputs ==
    [signing_cert : SigningCertInputs, signature_valid : BOOLEAN]

NoReport ==
    [signing_cert |-> [parses |-> FALSE, chains_to_root |-> FALSE,
                       not_before |-> 0, not_after |-> 0],
     signature_valid |-> FALSE]

\* b with the byte at 1-based position p replaced by v
WithByte(b, p, v) == [i \in 1..Len(b) |-> IF i = p THEN v ELSE b[i]]

\* report_data of the fixture quote: its last 64 bytes
FixtureReportData == SubSeq(FixtureQuote, 369, 432)

\* raw subject public keys: the SEC1 uncompressed key the fixture quote
\* attests, the same with one byte changed, in compressed form, one
\* byte short, one byte long, and the empty bit string
PubKeyInputs ==
    {<<4>> \o FixtureReportData,
     <<4>> \o WithByte(FixtureReportData, 64, 0),
     <<2>> \o FixtureReportData,
     <<4>> \o SubSeq(FixtureReportData, 1, 63),
     <<4>> \o FixtureReportData \o <<0>>,
     <<>>}

\* quote bodies of the report: not a string, not base64, and the base64
\* text of the fixture quote, of the same with a reserved byte changed, one
\* byte short, one byte long, of version 4
QuoteBodyInputs ==
    {NotAString, Str(<<"*", "*", "*", "*">>)} \cup
    {Str(base64_encode(q)) :
        q \in {FixtureQuote,
               WithByte(FixtureQuote, 100, 255),
               SubSeq(FixtureQuote, 1, 431),
               FixtureQuote \o <<0>>,
               WithByte(FixtureQuote, 1, 4)}}

(***************************************************************************)
(* AttestationReport::from_cert, statement by statement.                   *)
(***************************************************************************)
Terminal == {"Ok", "Err", "panic"}

\* `?` on a failure, bail!: the call returns Err(kind) from statement pc
Fail(kind) ==
    /\ pc' = "Err"
    /\ err' = kind
    /\ failed_at' = pc
    /\ steps' = Append(steps, pc)

\* expect on an error, an index out of bounds: the call aborts in statement pc
Panic ==
    /\ pc' = "panic"
    /\ failed_at' = pc
    /\ steps' = Append(steps, pc)
    /\ UNCHANGED err

\* the statement completes and control passes to statement next
Goto(next) ==
    /\ pc' = next
    /\ steps' = Append(steps, pc)
    /\ UNCHANGED <<err, failed_at>>

\* yasna::parse_der(cert, X509::load)?, and the descent to the subject
\* public key and to the payload of the extension.  The key bits are not
\* looked at before the key binding; they are drawn there.
ParseDer ==
    /\ pc = "parse_der"
    /\ \E wellformed \in BOOLEAN :
         IF wellformed
         THEN Goto("decode_payload")
         ELSE Fail("yasna::ASN1Error")
    /\ UNCHANGED <<codec_vars, reads, pub_k, report, time, chain_verified,
                   signature_verified, timestamp, quote_freshness,
                   status_string, sgx_quote_status, sgx_quote_body>>

\* let report: EndorsedAttestationReport = serde_json::from_slice(&payload)?
DecodePayload ==
    /\ pc = "decode_payload"
    /\ \E is_json \in BOOLEAN, r \in ReportInputs :
         IF is_json
         THEN Goto("signing_cert") /\ report' = r
         ELSE Fail("serde_json::Error") /\ UNCHANGED report
    /\ UNCHANGED <<codec_vars, reads, pub_k, time, chain_verified,
                   signature_verified, timestamp, quote_freshness,
                   status_string, sgx_quote_status, sgx_quote_body>>

\* webpki::EndEntityCert::from(&report.signing_cert)?
SigningCert ==
    /\ pc = "signing_cert"
    /\ IF report.signing_cert.parses
       THEN Goto("add_root")
       ELSE Fail("webpki::Error")
    /\ UNCHANGED <<codec_vars, reads, pub_k, report, time,
                   chain_verified, signature_verified, timestamp,
                   quote_freshness, status_string, sgx_quote_status,
                   sgx_quote_body>>

\* root_store.add(..).expect("Failed to add CA"): the root CA is the
\* caller's second argument; expect panics when add returns an error
AddRoot ==
    /\ pc = "add_root"
    /\ \E added \in BOOLEAN :
         IF added
         THEN Goto("read_time")
         ELSE Panic
    /\ UNCHANGED <<codec_vars, reads, pub_k, report, time,
                   chain_verified, signature_verified, timestamp,
                   quote_freshness, status_string, sgx_quote_status,
                   sgx_quote_body>>

\* webpki::Time::try_from(SystemTime): whole seconds since the epoch; an
\* error for a system time before the epoch
webpki_Time_try_from(system_time) ==
    IF system_time.secs >= 0
    THEN [ok |-> TRUE, value |-> system_time.secs]
    ELSE [ok |-> FALSE, err |-> "Cannot convert time."]

\* let time = webpki::Time::try_from(SystemTime::now()).map_err(..)?
ReadTime ==
    /\ pc = "read_time"
    /\ \E clock \in ClockValues :
         /\ reads' = Append(reads, clock)
         /\ LET t == webpki_Time_try_from(clock)
            IN  IF t.ok
                THEN Goto("verify_chain") /\ time' = t.value
                ELSE Fail(t.err) /\ UNCHANGED time
    /\ UNCHANGED <<codec_vars, pub_k, report, chain_verified,
                   signature_verified, timestamp, quote_freshness,
                   status_string, sgx_quote_status, sgx_quote_body>>

\* verify_is_valid_tls_server_cert: the certificate chains to the single
\* trust anchor and `at` lies in its validity period
verify_is_valid_tls_server_cert(cert, at) ==
    /\ cert.chains_to_root
    /\ cert.not_before <= at
    /\ at <= cert.not_after

\* signing_cert.verify_is_valid_tls_server_cert(.., time)?
VerifyChain ==
    /\ pc = "verify_chain"
    /\ IF verify_is_valid_tls_server_cert(report.signing_cert, time)
       THEN Goto("verify_signature") /\ chain_verified' = TRUE
       ELSE Fail("webpki::Error") /\ UNCHANGED chain_verified
    /\ UNCHANGED <<codec_vars, reads, pub_k, report, time,
                   signature_verified, timestamp, quote_freshness,
                   status_string, sgx_quote_status, sgx_quote_body>>

\* signing_cert.verify_signature(RSA_PKCS1_2048_8192_SHA256, report, signature)
verify_signature(r) == r.signature_valid

\* the signature check with its result dropped instead of propagated
VerifySignature_result_ignored ==
    /\ pc = "verify_signature"
    /\ Goto("decode_report")
    /\ signature_verified' = verify_signature(report)
    /\ UNCHANGED <<codec_vars, reads, pub_k, report, time,
                   chain_verified, timestamp, quote_freshness,
                   status_string, sgx_quote_status, sgx_quote_body>>

\* signing_cert.verify_signature(..)?
VerifySignature ==
    /\ pc = "verify_signature"
    /\ IF verify_signature(report)
       THEN Goto("decode_report") /\ signature_verified' = TRUE
       ELSE Fail("webpki::Error") /\ UNCHANGED signature_verified
    /\ UNCHANGED <<codec_vars, reads, pub_k, report, time,
                   chain_verified, timestamp, quote_freshness,
                   status_string, sgx_quote_status, sgx_quote_body>>

\* let attn_report: Value = serde_json::from_slice(&report.report)?
DecodeReport ==
    /\ pc = "decode_report"
    /\ \E is_json \in BOOLEAN :
         IF is_json THEN Goto("freshness") ELSE Fail("serde_json::Error")
    /\ UNCHANGED <<codec_vars, reads, pub_k, report, time,
                   chain_verified, signature_verified, timestamp,
                   quote_freshness, status_string, sgx_quote_status,
                   sgx_quote_body>>

\* the freshness block reusing the time read for the chain
freshness_now_reusing_time(system_clock, chain_time) ==
    [value |-> [secs |-> chain_time, nanos |-> 0], read |-> FALSE]

\* let now = DateTime::<Utc>::from(SystemTime::now()).naive_utc(): a new read
\* of the system clock, not the value `time` read for the chain
freshness_now(system_clock, chain_time) ==
    [value |-> system_clock, read |-> TRUE]

\* 1. let quote_freshness = { .. }: attn_report["timestamp"] is drawn where
\* it is read
Freshness ==
    /\ pc = "freshness"
    /\ \E ts \in TimestampInputs, clock \in ClockValues :
         /\ timestamp' = ts
         /\ IF ~ts.is_str
            THEN Fail("AttestationError::ReportError")
                 /\ UNCHANGED <<reads, quote_freshness>>
            ELSE
            LET time_fixed == ts.str \o <<"+","0","0","0","0">>
                date_time  == DateTime_parse_from_str(time_fixed)
            IN  IF ~date_time.ok
                THEN Fail(date_time.err) /\ UNCHANGED <<reads, quote_freshness>>
                ELSE
                LET now == freshness_now(clock, time)
                    f   == u64_try_from(Duration_num_seconds(
                               NaiveDateTime_sub(now.value, date_time.value)))
                IN  /\ reads' = IF now.read THEN Append(reads, clock) ELSE reads
                    /\ IF f.ok
                       THEN Goto("quote_status") /\ quote_freshness' = f.value
                       ELSE Fail(f.err) /\ UNCHANGED quote_freshness
    /\ UNCHANGED <<codec_vars, pub_k, report, time, chain_verified,
                   signature_verified, status_string, sgx_quote_status,
                   sgx_quote_body>>

\* 2. let sgx_quote_status = { .. }: attn_report["isvEnclaveQuoteStatus"] is
\* drawn where it is read
QuoteStatus ==
    /\ pc = "quote_status"
    /\ \E s \in StatusInputs :
         /\ status_string' = s
         /\ IF ~s.is_str
            THEN Fail("AttestationError::ReportError") /\ UNCHANGED sgx_quote_status
            ELSE Goto("quote_body") /\ sgx_quote_status' = SgxQuoteStatus_from(s.str)
    /\ UNCHANGED <<codec_vars, reads, pub_k, report, time,
                   chain_verified, signature_verified, timestamp,
                   quote_freshness, sgx_quote_body>>

\* 3. let sgx_quote_body = { .. }: attn_report["isvEnclaveQuoteBody"] is
\* drawn where it is read
QuoteBody ==
    /\ pc = "quote_body"
    /\ \E quote_encoded \in QuoteBodyInputs :
         IF ~quote_encoded.is_str
         THEN Fail("AttestationError::ReportError") /\ UNCHANGED sgx_quote_body
         ELSE
         LET quote_raw == base64_decode(quote_encoded.str)
         IN  IF ~quote_raw.ok
             THEN Fail(quote_raw.err) /\ UNCHANGED sgx_quote_body
             ELSE
             LET quote == SgxQuote_parse_from(quote_raw.value)
             IN  IF ~quote.ok
                 THEN Fail(quote.err) /\ UNCHANGED sgx_quote_body
                 ELSE Goto("key_binding") /\ sgx_quote_body' = quote
    /\ UNCHANGED <<codec_vars, reads, pub_k, report, time,
                   chain_verified, signature_verified, timestamp,
                   quote_freshness, status_string, sgx_quote_status>>

\* the comparison without the check of the form octet
key_matches_any_form(raw_pub_k, report_data) ==
    SubSeq(raw_pub_k, 2, Len(raw_pub_k)) = report_data

\* is_uncompressed && pub_k == report_data, for a key of at least one byte
key_matches(raw_pub_k, report_data) ==
    /\ raw_pub_k[1] = 4
    /\ SubSeq(raw_pub_k, 2, Len(raw_pub_k)) = report_data

\* let raw_pub_k = pub_k.to_bytes() .. Ok(Self { .. }): raw_pub_k[0] panics
\* on an empty key (index out of bounds); a key that does not match fails
\* with ReportError; otherwise the call returns Ok
KeyBinding ==
    /\ pc = "key_binding"
    /\ \E raw_pub_k \in PubKeyInputs :
         /\ pub_k' = raw_pub_k
         /\ IF Len(raw_pub_k) = 0
            THEN Panic
            ELSE IF ~key_matches(raw_pub_k,
                                 sgx_quote_body.value.isv_enclave_report.report_data)
            THEN Fail("AttestationError::ReportError")
            ELSE Goto("Ok")
    /\ UNCHANGED <<codec_vars, reads, report, time,
                   chain_verified, signature_verified, timestamp,
                   quote_freshness, status_string, sgx_quote_status,
                   sgx_quote_body>>

\* the AttestationReport an Ok call returns
AttestationReport ==
    [freshness        |-> quote_freshness,
     sgx_quote_status |-> sgx_quote_status,
     sgx_quote_body   |-> sgx_quote_body.value]

CodecIdle ==
    /\ op = "none"
    /\ bytes = <<>>
    /\ parsed = NotParsed
    /\ prev_bytes = <<>>
    /\ prev_parsed = NotParsed

Init ==
    /\ CodecIdle
    /\ pc = "parse_der"
    /\ err = "none"
    /\ failed_at = "none"
    /\ steps = <<>>
    /\ reads = <<>>
    /\ pub_k = <<>>
    /\ report = NoReport
    /\ time = 0
    /\ chain_verified = FALSE
    /\ signature_verified = FALSE
    /\ timestamp = NotAString
    /\ quote_freshness = 0
    /\ status_string = [is_str |-> FALSE, str |-> ""]
    /\ sgx_quote_status = "none"
    /\ sgx_quote_body = NotParsed

Next ==
    \/ ParseDer
    \/ DecodePayload
    \/ SigningCert
    \/ AddRoot
    \/ ReadTime
    \/ VerifyChain
    \/ VerifySignature
    \/ DecodeReport
    \/ Freshness
    \/ QuoteStatus
    \/ QuoteBody
    \/ KeyBinding

Spec == Init /\ [][Next]_vars

(***************************************************************************)
(* Direct calls of the codec.                                              *)
(***************************************************************************)
\* filler bytes: neighbouring bytes differ, and so do the bytes of a word
Pattern(i) == (37 * i + 11) % 256

\* a quote of version V3(P256_256) whose other bytes are filler
PatternQuote ==
    [i \in 1..432 |-> IF i <= 4 THEN <<3, 0, 2, 0>>[i] ELSE Pattern(i)]

\* b cut or continued with filler to n bytes
Resize(b, n) == [i \in 1..n |-> IF i <= Len(b) THEN b[i] ELSE Pattern(i)]

\* b with its first four bytes replaced by h
WithHeader(b, h) == [i \in 1..Len(b) |-> IF i <= 4 THEN h[i] ELSE b[i]]

\* input lengths: the short ones, and those around 384 and 432
InputLengths ==
    (0..MaxShortLen)
    \cup ((384 - MaxLenDelta)..(384 + MaxLenDelta))
    \cup ((432 - MaxLenDelta)..(432 + MaxLenDelta))

HeaderInputs ==
    {<<a, b, c, d>> : a \in 0..MaxHeaderLow, b \in 0..MaxHeaderHigh,
                      c \in 0..MaxHeaderLow, d \in 0..MaxHeaderHigh}

QuoteInputs ==
    {WithHeader(FixtureQuote, h) : h \in HeaderInputs}
    \cup {Resize(q, n) : q \in {FixtureQuote, PatternQuote}, n \in InputLengths}

EnclaveReportInputs ==
    {Resize(SubSeq(q, 49, 432), n) :
        q \in {FixtureQuote, PatternQuote}, n \in InputLengths}

\* the layout of a quote as the specification tabulates it: 0-based offset
\* in the quote, size, and whether the region is reserved
QuoteLayout ==
    <<[name |-> "version",       off |-> 0,        size |-> 2,  reserved |-> FALSE],
      [name |-> "discriminator", off |-> 2,        size |-> 2,  reserved |-> FALSE],
      [name |-> "gid",           off |-> 4,        size |-> 4,  reserved |-> FALSE],
      [name |-> "isv_svn_qe",    off |-> 8,        size |-> 2,  reserved |-> FALSE],
      [name |-> "isv_svn_pce",   off |-> 10,       size |-> 2,  reserved |-> FALSE],
      [name |-> "qe_vendor_id",  off |-> 12,       size |-> 16, reserved |-> FALSE],
      [name |-> "user_data",     off |-> 28,       size |-> 20, reserved |-> FALSE],
      [name |-> "cpu_svn",       off |-> 48 + 0,   size |-> 16, reserved |-> FALSE],
      [name |-> "misc_select",   off |-> 48 + 16,  size |-> 4,  reserved |-> FALSE],
      [name |-> "reserved1",     off |-> 48 + 20,  size |-> 28, reserved |-> TRUE],
      [name |-> "attributes",    off |-> 48 + 48,  size |-> 16, reserved |-> FALSE],
      [name |-> "mr_enclave",    off |-> 48 + 64,  size |-> 32, reserved |-> FALSE],
      [name |-> "reserved2",     off |-> 48 + 96,  size |-> 32, reserved |-> TRUE],
      [name |-> "mr_signer",     off |-> 48 + 128, size |-> 32, reserved |-> FALSE],
      [name |-> "reserved3",     off |-> 48 + 160, size |-> 96, reserved |-> TRUE],
      [name |-> "isv_prod_id",   off |-> 48 + 256, size |-> 2,  reserved |-> FALSE],
      [name |-> "isv_svn",       off |-> 48 + 258, size |-> 2,  reserved |-> FALSE],
      [name |-> "reserved4",     off |-> 48 + 260, size |-> 60, reserved |-> TRUE],
      [name |-> "report_data",   off |-> 48 + 320, size |-> 64, reserved |-> FALSE]>>

\* the 1-based positions of a region
Positions(f) == (f.off + 1)..(f.off + f.size)

ReservedPositions ==
    UNION {Positions(QuoteLayout[k]) : k \in {j \in DOMAIN QuoteLayout : QuoteLayout[j].reserved}}

\* the sets of positions changed between two calls: every single byte of a
\* quote, every reserved region as a whole, and all reserved regions
ChangedPositions ==
    {{p} : p \in 1..432}
    \cup {Positions(QuoteLayout[k]) : k \in {j \in DOMAIN QuoteLayout : QuoteLayout[j].reserved}}
    \cup {ReservedPositions}

\* b with every byte at a position of S changed
Changed(b, S) == [i \in 1..Len(b) |-> IF i \in S THEN 255 - b[i] ELSE b[i]]

\* a call SgxQuote::parse_from(b)
ParseQuote ==
    /\ op = "none"
    /\ \E b \in QuoteInputs :
         /\ bytes' = b
         /\ parsed' = SgxQuote_parse_from(b)
    /\ op' = "quote"
    /\ UNCHANGED <<prev_bytes, prev_parsed, call_vars>>

\* a second call SgxQuote::parse_from, on the first input changed at some
\* positions
ParseQuoteAgain ==
    /\ op = "quote"
    /\ \E S \in ChangedPositions :
         /\ S \subseteq 1..Len(bytes)
         /\ bytes' = Changed(bytes, S)
         /\ parsed' = SgxQuote_parse_from(Changed(bytes, S))
    /\ prev_bytes' = bytes
    /\ prev_parsed' = parsed
    /\ op' = "quote_again"
    /\ UNCHANGED call_vars

\* a call SgxEnclaveReport::parse_from(b)
ParseEnclaveReport ==
    /\ op = "none"
    /\ \E b \in EnclaveReportInputs :
         /\ bytes' = b
         /\ parsed' = SgxEnclaveReport_parse_from(b)
    /\ op' = "enclave_report"
    /\ UNCHANGED <<prev_bytes, prev_parsed, call_vars>>

NextCodec ==
    \/ ParseQuote
    \/ ParseQuoteAgain
    \/ ParseEnclaveReport

SpecCodec == Init /\ [][NextCodec]_vars

(***************************************************************************)
(* Properties of AttestationReport::from_cert (specification Spec).        *)
(***************************************************************************)
\* the statements after the freshness block: the block has completed
AfterFreshness == {"quote_status", "quote_body", "key_binding", "Ok"}

\* the instant the "timestamp" string of the report denotes, read as UTC
TimestampInstant ==
    DateTime_parse_from_str(timestamp.str \o <<"+","0","0","0","0">>).value

Earlier(a, b) == a.secs < b.secs \/ (a.secs = b.secs /\ a.nanos < b.nanos)

PlusSeconds(a, k) == [secs |-> a.secs + k, nanos |-> a.nanos]

\* f is the number of whole seconds from instant a to instant b, b not
\* earlier than a
WholeSecondsBetween(a, b, f) ==
    /\ ~Earlier(b, PlusSeconds(a, f))
    /\ Earlier(b, PlusSeconds(a, f + 1))

\* C1: whenever from_cert returns Ok, in that call the signing certificate
\* was accepted by the chain verification against the caller's root, the
\* signature over the report was accepted, and the raw subject public key is
\* the byte 0x04 followed by exactly the 64 bytes of
\* sgx_quote_body.isv_enclave_report.report_data.
C1_OkImpliesVerifiedAndBound ==
    pc = "Ok" =>
        /\ chain_verified
        /\ report.signing_cert.chains_to_root
        /\ signature_verified
        /\ report.signature_valid
        /\ Len(pub_k) = 65
        /\ pub_k[1] = 4
        /\ \A i \in 1..64 :
             pub_k[i + 1] = sgx_quote_body.value.isv_enclave_report.report_data[i]

C1_Witness ==
    /\ pc = "Ok"
    /\ pub_k = <<4>> \o FixtureReportData
    /\ AttestationReport.sgx_quote_body.isv_enclave_report.report_data = FixtureReportData

\* C2: from_cert always ends by returning a report or an error; it never
\* aborts, neither on a root CA that cannot be added to the root store nor
\* on an empty subject public key.
C2_NeverAborts == pc # "panic"

\* C3 as stated: in a call that returns Ok the wall clock was read exactly
\* once, and that value serves the chain check and the freshness.
C3_TimeReadOnce ==
    pc = "Ok" =>
        /\ Len(reads) = 1
        /\ time = reads[1].secs
        /\ WholeSecondsBetween(TimestampInstant, reads[1], quote_freshness)

\* C3 amended: the wall clock is read at most twice in a call.  The first
\* value, in whole seconds, is the time of the chain check; once the
\* freshness block has completed the clock has been read a second time, and
\* freshness is computed from that second value.
C3_TimeReadTwice ==
    /\ Len(reads) <= 2
    /\ pc \in {"verify_chain", "verify_signature", "decode_report", "freshness"}
         => Len(reads) = 1 /\ time = reads[1].secs
    /\ pc \in AfterFreshness =>
         /\ Len(reads) = 2
         /\ time = reads[1].secs
         /\ IF Earlier(reads[2], TimestampInstant)
            THEN quote_freshness = 0
            ELSE WholeSecondsBetween(TimestampInstant, reads[2], quote_freshness)

\* the chain check passed at the first value of the clock while the second
\* value, used for freshness, lies after the certificate's validity
C3_Witness ==
    /\ pc = "Ok"
    /\ reads[1] # reads[2]
    /\ verify_is_valid_tls_server_cert(report.signing_cert, reads[1].secs)
    /\ ~verify_is_valid_tls_server_cert(report.signing_cert, reads[2].secs)

\* the freshness block has read the clock: every statement before it
\* succeeded and the timestamp parsed
FreshnessComputed == Len(reads) = 2

\* C4 as stated: if all steps before the freshness computation succeed and
\* now is earlier than the timestamp by any amount, the call fails with
\* ReportError.
C4_NowEarlierIsReportError ==
    (FreshnessComputed /\ Earlier(reads[2], TimestampInstant)) =>
        pc = "Err" /\ err = "AttestationError::ReportError"

\* C4 amended: if all steps before the freshness computation succeed and
\* now is earlier than the timestamp by one second or more, the call fails
\* in the freshness block with the integer conversion error; if now is
\* earlier by less than one second the block succeeds with freshness 0.
C4_NowEarlierByASecondFails ==
    FreshnessComputed =>
        /\ ~Earlier(TimestampInstant, PlusSeconds(reads[2], 1)) =>
             pc = "Err" /\ failed_at = "freshness" /\ err = "TryFromIntError"
        /\ (Earlier(reads[2], TimestampInstant)
            /\ Earlier(TimestampInstant, PlusSeconds(reads[2], 1))) =>
             failed_at # "freshness" /\ quote_freshness = 0

C4_Witness ==
    /\ FreshnessComputed
    /\ ~Earlier(TimestampInstant, PlusSeconds(reads[2], 1))
    /\ pc = "Err"
    /\ err = "TryFromIntError"

\* C5 as stated: for the timestamp 2020-02-11T22:25:59.682915 and
\* now = 2020-02-11T22:26:09 UTC a successful call returns freshness 10.
C5_FixtureFreshnessIsTen ==
    (pc = "Ok" /\ timestamp = Str(FixtureTimestamp) /\ reads[2] = FixtureNow) =>
        AttestationReport.freshness = 10

\* C5 amended: on a successful call freshness is the number of whole seconds
\* between the report's timestamp, read as UTC, and the current time; for
\* the timestamp 2020-02-11T22:25:59.682915 and now = 2020-02-11T22:26:09
\* UTC it is 9.
C5_FreshnessIsWholeSeconds ==
    pc = "Ok" =>
        /\ IF Earlier(reads[2], TimestampInstant)
           THEN /\ AttestationReport.freshness = 0
                /\ Earlier(TimestampInstant, PlusSeconds(reads[2], 1))
           ELSE WholeSecondsBetween(TimestampInstant, reads[2],
                                    AttestationReport.freshness)
        /\ (timestamp = Str(FixtureTimestamp) /\ reads[2] = FixtureNow) =>
             AttestationReport.freshness = 9

C5_Witness ==
    /\ pc = "Ok"
    /\ timestamp = Str(FixtureTimestamp)
    /\ reads[2] = FixtureNow
    /\ AttestationReport.freshness = 9

\* the mapping of the status strings as the specification tabulates it
StatusTable ==
    {<<"OK", "OK">>,
     <<"KEY_REVOKED", "AttestationKeyRevoked">>,
     <<"GROUP_OUT_OF_DATE", "TcbOutOfDate">>,
     <<"TCB_OUT_OF_DATE", "TcbOutOfDate">>,
     <<"CONFIGURATION_NEEDED", "ConfigurationNeeded">>,
     <<"OUT_OF_DATE_CONFIGURATION_NEEDED", "TcbOutOfDateAndConfigurationNeeded">>,
     <<"SIGNATURE_INVALID", "SignatureInvalid">>,
     <<"SW_HARDENING_NEEDED", "SwHardeningNeeded">>}

\* C9: the status mapping is total and never an error: the eight known
\* strings map as tabulated and every other string maps to
\* UnknownBadStatus; a status that is a string never makes the call fail at
\* the status step.
C9_StatusMappingTotal ==
    status_string.is_str =>
        /\ failed_at # "quote_status"
        /\ \/ <<status_string.str, sgx_quote_status>> \in StatusTable
           \/ /\ \A p \in StatusTable : p[1] # status_string.str
              /\ sgx_quote_status = "UnknownBadStatus"

C9_Witness ==
    /\ pc = "Ok"
    /\ status_string.str = "banana"
    /\ AttestationReport.sgx_quote_status = "UnknownBadStatus"

\* the statements of from_cert in the order the claim gives them
StepOrder ==
    <<"parse_der", "decode_payload", "signing_cert", "add_root", "read_time",
      "verify_chain", "verify_signature",
      "decode_report", "freshness", "quote_status", "quote_body",
      "key_binding">>

\* the statements that interpret the signed report bytes, and the key binding
InterpretingSteps ==
    {"decode_report", "freshness", "quote_status", "quote_body", "key_binding"}

Ran(step) == \E i \in 1..Len(steps) : steps[i] = step

\* C11: within one call the steps are strictly ordered: the chain
\* verification precedes the signature check, both have succeeded before
\* the signed report bytes are interpreted at all (JSON decode of the
\* report, freshness, status mapping, base64 decode and quote parsing), and
\* the key binding comes last; a failure at any step ends the call at once,
\* so that no later step runs.
C11_StepsInOrder ==
    /\ Len(steps) <= Len(StepOrder)
    /\ steps = SubSeq(StepOrder, 1, Len(steps))
    /\ pc \notin Terminal => pc = StepOrder[Len(steps) + 1]
    /\ pc = "Ok" => steps = StepOrder /\ failed_at = "none"
    /\ pc \in {"Err", "panic"} =>
         Len(steps) >= 1 /\ steps[Len(steps)] = failed_at
    /\ failed_at # "none" => pc \in {"Err", "panic"}
    /\ Ran("verify_signature") => chain_verified
    /\ (\E s \in InterpretingSteps : Ran(s)) =>
         chain_verified /\ signature_verified
    /\ (timestamp.is_str \/ Len(reads) = 2 \/ status_string.is_str
        \/ sgx_quote_body.ok \/ pub_k # <<>>) =>
         chain_verified /\ signature_verified
    /\ pub_k # <<>> => sgx_quote_body.ok /\ status_string.is_str /\ Len(reads) = 2

\* a call stopped by the signature check: the chain was verified, and
\* nothing of the report was interpreted
C11_Witness ==
    /\ pc = "Err"
    /\ failed_at = "verify_signature"
    /\ chain_verified
    /\ ~signature_verified
    /\ steps = SubSeq(StepOrder, 1, 7)
    /\ ~timestamp.is_str
    /\ ~status_string.is_str
    /\ ~sgx_quote_body.ok

(***************************************************************************)
(* Properties of the codec (specification SpecCodec).                      *)
(***************************************************************************)
QuoteCalled == op \in {"quote", "quote_again"}

\* C6: SgxQuote::parse_from succeeds only on inputs of exactly 432 bytes and
\* SgxEnclaveReport::parse_from only on inputs of exactly 384 bytes; any
\* other length is an error, and on success the cursor has consumed every
\* input byte.
C6_ExactLengths ==
    /\ QuoteCalled =>
         /\ parsed.ok => Len(bytes) = 432 /\ parsed.pos = Len(bytes)
         /\ Len(bytes) # 432 => ~parsed.ok
    /\ op = "enclave_report" =>
         /\ parsed.ok => Len(bytes) = 384 /\ parsed.pos = Len(bytes)
         /\ Len(bytes) # 384 => ~parsed.ok

C6_Witness ==
    /\ op = "enclave_report"
    /\ Len(bytes) = 384
    /\ parsed.ok
    /\ parsed.pos = 384

\* the little-endian u16 at 0-based offset off of b
WordAt(b, off) == b[off + 1] + 256 * b[off + 2]

\* the legal (version, discriminator) pairs and the variant of each
VersionTable ==
    {<<1, 0, [tag |-> "V1", ty |-> "Unlinkable"]>>,
     <<1, 1, [tag |-> "V1", ty |-> "Linkable"]>>,
     <<2, 0, [tag |-> "V2", ty |-> "Unlinkable"]>>,
     <<2, 1, [tag |-> "V2", ty |-> "Linkable"]>>,
     <<3, 2, [tag |-> "V3", ty |-> "P256_256"]>>,
     <<3, 3, [tag |-> "V3", ty |-> "P384_384"]>>}

\* C7: for every 432-byte input, SgxQuote::parse_from reads the
\* little-endian version at offset 0 and discriminator at offset 2; the six
\* legal pairs yield their variant and every other pair makes the parse
\* fail.
C7_VersionDiscriminator ==
    (QuoteCalled /\ Len(bytes) = 432) =>
        IF \E p \in VersionTable : p[1] = WordAt(bytes, 0) /\ p[2] = WordAt(bytes, 2)
        THEN /\ parsed.ok
             /\ <<WordAt(bytes, 0), WordAt(bytes, 2), parsed.value.version>> \in VersionTable
        ELSE ~parsed.ok

C7_Witness ==
    /\ op = "quote"
    /\ Len(bytes) = 432
    /\ WordAt(bytes, 0) = 3
    /\ WordAt(bytes, 2) = 3
    /\ parsed.ok
    /\ parsed.value.version = [tag |-> "V3", ty |-> "P384_384"]

\* the version and discriminator words of a variant
VersionWords(version) ==
    (CHOOSE p \in VersionTable : p[3] = version)

Zeros(n) == [i \in 1..n |-> 0]

\* the 432 bytes of a quote, reserved regions zero
SgxQuote_encode(q) ==
    U16ToLeBytes(VersionWords(q.version)[1])
    \o U16ToLeBytes(VersionWords(q.version)[2])
    \o U32ToLeBytes(q.gid)
    \o U16ToLeBytes(q.isv_svn_qe)
    \o U16ToLeBytes(q.isv_svn_pce)
    \o q.qe_vendor_id
    \o q.user_data
    \o q.isv_enclave_report.cpu_svn
    \o U32ToLeBytes(q.isv_enclave_report.misc_select)
    \o Zeros(28)
    \o q.isv_enclave_report.attributes
    \o q.isv_enclave_report.mr_enclave
    \o Zeros(32)
    \o q.isv_enclave_report.mr_signer
    \o Zeros(96)
    \o U16ToLeBytes(q.isv_enclave_report.isv_prod_id)
    \o U16ToLeBytes(q.isv_enclave_report.isv_svn)
    \o Zeros(60)
    \o q.isv_enclave_report.report_data

\* the bytes of b at 0-based offsets off .. off + size - 1
Slice(b, off, size) == SubSeq(b, off + 1, off + size)

\* C8: for every 432-byte input with a legal version and discriminator the
\* parsed quote holds the input bytes at the tabulated offsets, multi-byte
\* scalars little-endian, so that re-encoding the parsed fields reproduces
\* every non-reserved input byte.
C8_FieldsAtOffsets ==
    (QuoteCalled /\ parsed.ok) =>
        LET q == parsed.value
            r == parsed.value.isv_enclave_report
        IN  /\ q.gid = [lo |-> WordAt(bytes, 4), hi |-> WordAt(bytes, 6)]
            /\ q.isv_svn_qe = WordAt(bytes, 8)
            /\ q.isv_svn_pce = WordAt(bytes, 10)
            /\ q.qe_vendor_id = Slice(bytes, 12, 16)
            /\ q.user_data = Slice(bytes, 28, 20)
            /\ r.cpu_svn = Slice(bytes, 48 + 0, 16)
            /\ r.misc_select = [lo |-> WordAt(bytes, 48 + 16), hi |-> WordAt(bytes, 48 + 18)]
            /\ r.attributes = Slice(bytes, 48 + 48, 16)
            /\ r.mr_enclave = Slice(bytes, 48 + 64, 32)
            /\ r.mr_signer = Slice(bytes, 48 + 128, 32)
            /\ r.isv_prod_id = WordAt(bytes, 48 + 256)
            /\ r.isv_svn = WordAt(bytes, 48 + 258)
            /\ r.report_data = Slice(bytes, 48 + 320, 64)
            /\ Len(SgxQuote_encode(q)) = 432
            /\ \A i \in (1..432) \ ReservedPositions : SgxQuote_encode(q)[i] = bytes[i]

\* the values tests::test_sgx_quote_parse_from asserts for the fixture quote
C8_Witness ==
    /\ op = "quote"
    /\ bytes = FixtureQuote
    /\ parsed.ok
    /\ parsed.value.version = [tag |-> "V2", ty |-> "Linkable"]
    /\ parsed.value.gid = [lo |-> 2863, hi |-> 0]
    /\ parsed.value.isv_svn_qe = 10
    /\ parsed.value.isv_svn_pce = 9
    /\ parsed.value.qe_vendor_id =
         <<0, 0, 0, 0, 173, 115, 69, 3, 136, 166, 119, 98, 63, 130, 33, 150>>
    /\ parsed.value.user_data =
         <<117, 182, 2, 76, 0, 0, 0, 0, 0, 0, 0, 0, 0, 0, 0, 0, 0, 0, 0, 0>>
    /\ parsed.value.isv_enclave_report.cpu_svn =
         <<5, 14, 2, 5, 255, 128, 0, 0, 0, 0, 0, 0, 0, 0, 0, 0>>
    /\ parsed.value.isv_enclave_report.misc_select = [lo |-> 0, hi |-> 0]
    /\ parsed.value.isv_enclave_report.attributes =
         <<7, 0, 0, 0, 0, 0, 0, 0, 7, 0, 0, 0, 0, 0, 0, 0>>
    /\ parsed.value.isv_enclave_report.mr_enclave =
         <<51, 10, 169, 16, 163, 119, 103, 128, 226, 0, 38, 174, 61, 172, 7, 175,
           14, 90, 147, 31, 132, 241, 248, 48, 125, 187, 133, 144, 47, 88, 105, 83>>
    /\ parsed.value.isv_enclave_report.mr_signer =
         <<131, 215, 25, 231, 125, 234, 202, 20, 112, 246, 186, 246, 42, 77, 119, 67,
           3, 200, 153, 219, 105, 2, 15, 156, 112, 238, 29, 252, 8, 199, 206, 158>>
    /\ parsed.value.isv_enclave_report.isv_prod_id = 0
    /\ parsed.value.isv_enclave_report.isv_svn = 0
    /\ parsed.value.isv_enclave_report.report_data =
         <<216, 33, 143, 100, 208, 197, 102, 9, 210, 3, 82, 225, 75, 127, 253, 155,
           24, 129, 192, 124, 248, 206, 246, 123, 194, 237, 248, 51, 173, 7, 157, 120,
           13, 214, 91, 135, 69, 120, 142, 168, 123, 228, 66, 45, 213, 119, 93, 128,
           245, 159, 169, 68, 102, 50, 19, 59, 51, 207, 45, 96, 241, 186, 81, 179>>

\* the two inputs of the last two calls are equal outside the reserved
\* regions of the embedded enclave report
DifferOnlyInReserved ==
    /\ Len(bytes) = Len(prev_bytes)
    /\ \A i \in 1..Len(bytes) : bytes[i] # prev_bytes[i] => i \in ReservedPositions

\* the decision of the key binding for a raw key k and a parse result
KeyBindingDecision(k, p) ==
    p.ok /\ key_matches(k, p.value.isv_enclave_report.report_data)

\* C10: for two inputs of SgxQuote::parse_from that are equal everywhere
\* except inside the reserved regions of the embedded enclave report, either
\* both parses fail or both succeed with every parsed field equal, and the
\* key binding decides the same for both.
C10_ReservedBytesIgnored ==
    (op = "quote_again" /\ DifferOnlyInReserved) =>
        /\ parsed.ok = prev_parsed.ok
        /\ parsed.ok => parsed.value = prev_parsed.value
        /\ \A k \in PubKeyInputs \ {<<>>} :
             KeyBindingDecision(k, parsed) = KeyBindingDecision(k, prev_parsed)

C10_Witness ==
    /\ op = "quote_again"
    /\ DifferOnlyInReserved
    /\ \A i \in ReservedPositions : bytes[i] # prev_bytes[i]
    /\ parsed.ok
    /\ KeyBindingDecision(<<4>> \o FixtureReportData, parsed)

====
